---- MODULE Spec2Model ----
(***************************************************************************)
(* Model of openrpc-gen's code generator (src/src/gen.rs).                 *)
(*                                                                         *)
(* Text is modelled as a sequence of tokens (each token a string), so that *)
(* template substitution, formatting and case conversion are computed and  *)
(* never the identity.  Optional values (Rust Option) are sequences of     *)
(* length 0 (None) or 1 (Some).  Ordered maps (IndexMap) are sequences of  *)
(* their values, each value carrying its key.  A backquote in the         *)
(* generated text is written ' here (the string syntax has no backquote). *)
(***************************************************************************)
EXTENDS Integers, Sequences, FiniteSets, TLC

VARIABLES
    file,       \* the crate::parse::File handed to gen
    config,     \* the crate::config::Config handed to gen
    out,        \* the lines the sink has accepted so far
    attempts,   \* number of writes gen has attempted on the sink
    failedAt,   \* index of the attempt at which the sink failed, 0 if none
    sinkError,  \* the io::Error the sink raised, <<>> if none
    ret,        \* gen's return value: <<>> while running, then Ok or Err(e)
    wire,       \* the last wire value handed to a generated decoder
    decoded,    \* what the generated decoder returned for it
    encoded,    \* what the generated encoder last produced
    call,       \* the arguments of a type_ref_name call
    resolved    \* its result, <<>> before the call

vars == <<file, config, out, attempts, failedAt, sinkError, ret,
          wire, decoded, encoded, call, resolved>>

(***************************************************************************)
(* Bounds of the model.                                                    *)
(***************************************************************************)
MaxDepth == 1      \* nesting depth of Array(..) in the resolver's inputs
MaxParams == 2     \* parameters per method
MaxExtra == 1      \* wire elements beyond the declared parameters
MaxFields == 2     \* fields per struct

(***************************************************************************)
(* Text helpers.                                                           *)
(***************************************************************************)
None == <<>>
Some(x) == <<x>>

RECURSIVE Flatten(_)
Flatten(ss) == IF ss = <<>> THEN <<>> ELSE Head(ss) \o Flatten(Tail(ss))

\* str::replace("{}", inner): every occurrence of the slot is replaced.
RECURSIVE Replace(_, _)
Replace(template, inner) ==
    IF template = <<>> THEN <<>>
    ELSE (IF Head(template) = "{}" THEN inner ELSE <<Head(template)>>)
         \o Replace(Tail(template), inner)

\* `needle` occurs in `text` as a contiguous run of tokens.
Contains(text, needle) ==
    \E i \in 1..(Len(text) - Len(needle) + 1) :
        SubSeq(text, i, i + Len(needle) - 1) = needle

Range(s) == {s[i] : i \in 1..Len(s)}

(***************************************************************************)
(* TypeRef (crate::parse::TypeRef as matched in gen.rs:29-49).             *)
(***************************************************************************)
Boolean == [k |-> "Boolean"]
Integer == [k |-> "Integer"]
Null == [k |-> "Null"]
Number == [k |-> "Number"]
String == [k |-> "String"]
Keyword(val) == [k |-> "Keyword", val |-> val]
Ref(path) == [k |-> "Ref", path |-> path]
ExternalRef(name) == [k |-> "ExternalRef", name |-> name]
Array(inner) == [k |-> "Array", inner |-> inner]

\* file.types.get(path): the TypeDef stored under `path`, if any.
TypesGet(f, path) ==
    LET hits == {i \in 1..Len(f.types) : f.types[i].path = path}
    IN IF hits = {} THEN None
       ELSE Some(f.types[CHOOSE i \in hits : TRUE])

\* A resolver that wraps the element of an array instead of the array.
RECURSIVE type_ref_name_inner_wrap(_, _, _, _)
type_ref_name_inner_wrap(f, c, r, required) ==
    IF ~required /\ r.k # "Array"
    THEN Replace(c.primitives.optional, type_ref_name_inner_wrap(f, c, r, TRUE))
    ELSE CASE r.k = "Array" ->
                Replace(c.primitives.array,
                        type_ref_name_inner_wrap(f, c, r.inner, required))
           [] r.k = "Boolean" -> c.primitives.boolean
           [] r.k = "Integer" -> c.primitives.integer
           [] r.k = "Null" -> c.primitives.null
           [] r.k = "Number" -> c.primitives.number
           [] r.k = "String" -> c.primitives.string
           [] r.k = "Keyword" -> c.primitives.string \o <<" /* ", r.val, " */">>
           [] r.k = "Ref" ->
                IF TypesGet(f, r.path) # None
                THEN <<TypesGet(f, r.path)[1].name>>
                ELSE <<"BrokenReference", " /* ", r.path, " */">>
           [] r.k = "ExternalRef" -> <<r.name>>

\* A resolver that drops the path of a broken reference.
RECURSIVE type_ref_name_no_path(_, _, _, _)
type_ref_name_no_path(f, c, r, required) ==
    IF ~required
    THEN Replace(c.primitives.optional, type_ref_name_no_path(f, c, r, TRUE))
    ELSE CASE r.k = "Array" ->
                Replace(c.primitives.array,
                        type_ref_name_no_path(f, c, r.inner, TRUE))
           [] r.k = "Boolean" -> c.primitives.boolean
           [] r.k = "Integer" -> c.primitives.integer
           [] r.k = "Null" -> c.primitives.null
           [] r.k = "Number" -> c.primitives.number
           [] r.k = "String" -> c.primitives.string
           [] r.k = "Keyword" -> c.primitives.string \o <<" /* ", r.val, " */">>
           [] r.k = "Ref" ->
                IF TypesGet(f, r.path) # None
                THEN <<TypesGet(f, r.path)[1].name>>
                ELSE <<"BrokenReference">>
           [] r.k = "ExternalRef" -> <<r.name>>

\* Ctx::type_ref_name
RECURSIVE type_ref_name(_, _, _, _)
type_ref_name(f, c, r, required) ==
    IF ~required
    THEN Replace(c.primitives.optional, type_ref_name(f, c, r, TRUE))
    ELSE CASE r.k = "Array" ->
                Replace(c.primitives.array, type_ref_name(f, c, r.inner, TRUE))
           [] r.k = "Boolean" -> c.primitives.boolean
           [] r.k = "Integer" -> c.primitives.integer
           [] r.k = "Null" -> c.primitives.null
           [] r.k = "Number" -> c.primitives.number
           [] r.k = "String" -> c.primitives.string
           [] r.k = "Keyword" -> c.primitives.string \o <<" /* ", r.val, " */">>
           [] r.k = "Ref" ->
                IF TypesGet(f, r.path) # None
                THEN <<TypesGet(f, r.path)[1].name>>
                ELSE <<"BrokenReference", " /* ", r.path, " */">>
           [] r.k = "ExternalRef" -> <<r.name>>

(***************************************************************************)
(* Naming engine.  A name is a sequence of tokens: words and the "_"       *)
(* delimiter.  to_case is convert_case's: it splits the name into words at *)
(* the delimiters, re-cases every word and joins them again.               *)
(***************************************************************************)
Capitalized(w) ==
    CASE w = "eth" -> "Eth"
      [] w = "get" -> "Get"
      [] w = "block" -> "Block"
      [] w = "sync" -> "Sync"
      [] OTHER -> w

Uppercased(w) ==
    CASE w = "eth" -> "ETH"
      [] w = "get" -> "GET"
      [] w = "block" -> "BLOCK"
      [] w = "sync" -> "SYNC"
      [] OTHER -> w

RECURSIVE WordsOf(_)
WordsOf(name) ==
    IF name = <<>> THEN <<>>
    ELSE IF Head(name) = "_" THEN WordsOf(Tail(name))
    ELSE <<Head(name)>> \o WordsOf(Tail(name))

\* to_case(Case::Pascal)
PascalCase(name) == [i \in 1..Len(WordsOf(name)) |-> Capitalized(WordsOf(name)[i])]

\* to_case(Case::ScreamingSnake)
ScreamingSnakeCase(name) ==
    LET ws == WordsOf(name)
    IN Flatten([i \in 1..Len(ws) |->
                  IF i = 1 THEN <<Uppercased(ws[i])>>
                  ELSE <<"_", Uppercased(ws[i])>>])

\* str::strip_prefix
StripPrefix(name, prefix) ==
    IF Len(prefix) <= Len(name) /\ SubSeq(name, 1, Len(prefix)) = prefix
    THEN Some(SubSeq(name, Len(prefix) + 1, Len(name)))
    ELSE None

\* ident_base of gen_method
IdentBase(c, m) ==
    IF c.generation.method_name_prefix # None
    THEN (IF StripPrefix(m.name, c.generation.method_name_prefix[1]) # None
          THEN StripPrefix(m.name, c.generation.method_name_prefix[1])[1]
          ELSE m.name)
    ELSE m.name

(***************************************************************************)
(* Lines.  Every writeln! of gen.rs is one line: what it is (item), which  *)
(* field, variant, parameter or directive it belongs to (sub, 0 if none),  *)
(* and its text.                                                           *)
(***************************************************************************)
Line(item, sub, text) == [item |-> item, sub |-> sub, text |-> text]

When(cond, lines) == IF cond THEN lines ELSE <<>>

\* TypeRef::attributes(config, file): serialization attributes contributed
\* by a field's type.
attributes(c, f, r) ==
    IF r.k = "ExternalRef" /\ r.name \in DOMAIN c.attributes
    THEN c.attributes[r.name]
    ELSE <<>>

\* One field of a struct, with the default marker forgotten.
gen_struct_field_no_default(c, f, field, j) ==
    When(c.debug_path, <<Line("field_debug_path", j, <<"    // ", field.path>>)>>)
    \o When(field.documentation # None,
            <<Line("field_doc", j, <<"    /// ">> \o field.documentation)>>)
    \o When(field.flatten, <<Line("field_flatten", j, <<"    #[serde(flatten)]">>)>>)
    \o When(field.name # field.name_in_json,
            <<Line("field_rename", j,
                   <<"    #[serde(rename = \"", field.name_in_json, "\")]">>)>>)
    \o [a \in 1..Len(attributes(c, f, field.ty)) |->
          Line("field_attr", j, <<"    ", attributes(c, f, field.ty)[a]>>)]
    \o <<Line("field", j,
              <<"    pub ", field.name, ": ">>
              \o type_ref_name(f, c, field.ty, field.required) \o <<",">>)>>

\* gen_type, the body of `for field in s.fields.values()`
gen_struct_field(c, f, field, j) ==
    When(c.debug_path, <<Line("field_debug_path", j, <<"    // ", field.path>>)>>)
    \o When(field.documentation # None,
            <<Line("field_doc", j, <<"    /// ">> \o field.documentation)>>)
    \o When(~field.required, <<Line("field_default", j, <<"    #[serde(default)]">>)>>)
    \o When(field.flatten, <<Line("field_flatten", j, <<"    #[serde(flatten)]">>)>>)
    \o When(field.name # field.name_in_json,
            <<Line("field_rename", j,
                   <<"    #[serde(rename = \"", field.name_in_json, "\")]">>)>>)
    \o [a \in 1..Len(attributes(c, f, field.ty)) |->
          Line("field_attr", j, <<"    ", attributes(c, f, field.ty)[a]>>)]
    \o <<Line("field", j,
              <<"    pub ", field.name, ": ">>
              \o type_ref_name(f, c, field.ty, field.required) \o <<",">>)>>

\* generation.derives.get(path)
DerivesGet(c, path) ==
    IF path \in DOMAIN c.generation.derives
    THEN Some(c.generation.derives[path])
    ELSE None

\* The configured directives, path-specific ones first.
gen_derives_path_first(c, ty) ==
    When(DerivesGet(c, ty.path) # None,
         [d \in 1..Len(c.generation.derives[ty.path]) |->
            Line("derive_path", d,
                 <<"#[derive(", c.generation.derives[ty.path][d], ")]">>)])
    \o [d \in 1..Len(c.generation.global_derives) |->
          Line("derive_global", d,
               <<"#[derive(", c.generation.global_derives[d], ")]">>)]

\* gen_type, the configured directives of an enum
gen_derives(c, ty) ==
    [d \in 1..Len(c.generation.global_derives) |->
       Line("derive_global", d, <<"#[derive(", c.generation.global_derives[d], ")]">>)]
    \o When(DerivesGet(c, ty.path) # None,
            [d \in 1..Len(DerivesGet(c, ty.path)[1]) |->
               Line("derive_path", d,
                    <<"#[derive(", DerivesGet(c, ty.path)[1][d], ")]">>)])

\* gen_type, the body of `for variant in e.variants.values()`
gen_enum_variant(c, f, variant, j) ==
    When(c.debug_path, <<Line("variant_debug_path", j, <<"    // ", variant.path>>)>>)
    \o When(variant.documentation # None,
            <<Line("variant_doc", j, <<"    /// ">> \o variant.documentation)>>)
    \o When(variant.name_in_json # None /\ variant.name_in_json # Some(variant.name),
            <<Line("variant_rename", j,
                   <<"    #[serde(rename = \"">> \o variant.name_in_json \o <<"\")]">>)>>)
    \o (IF variant.ty # None
        THEN <<Line("variant", j,
                    <<"    ", variant.name, "(">>
                    \o type_ref_name(f, c, variant.ty[1], TRUE) \o <<"),">>)>>
        ELSE <<Line("variant", j, <<"    ", variant.name, ",">>)>>)

\* gen_type
gen_type(c, f, ty) ==
    When(c.debug_path, <<Line("debug_path", 0, <<"// ", ty.path>>)>>)
    \o When(ty.documentation # None, <<Line("doc", 0, <<"/// ">> \o ty.documentation)>>)
    \o (CASE ty.kind.k = "Alias" ->
               <<Line("alias", 0,
                      <<"pub type ", ty.name, " = ">>
                      \o type_ref_name(f, c, ty.kind.ty, TRUE) \o <<";">>)>>
          [] ty.kind.k = "Struct" ->
               <<Line("derive_auto", 0, <<"#[derive(Debug, Clone, Serialize, Deserialize)]">>),
                 Line("struct_open", 0, <<"pub struct ", ty.name, " {">>)>>
               \o Flatten([j \in 1..Len(ty.kind.fields) |->
                             gen_struct_field(c, f, ty.kind.fields[j], j)])
               \o <<Line("close", 0, <<"}">>)>>
          [] ty.kind.k = "Enum" ->
               <<Line("derive_auto", 0, <<"#[derive(Serialize, Deserialize)]">>)>>
               \o When(ty.kind.copy,
                       <<Line("derive_copy", 0, <<"#[derive(Copy, PartialEq, Eq, Hash)]">>)>>)
               \o gen_derives(c, ty)
               \o (CASE ty.kind.tag.k = "Normal" -> <<>>
                     [] ty.kind.tag.k = "Tagged" ->
                          <<Line("enum_tag", 0,
                                 <<"#[serde(tag = \"", ty.kind.tag.tag, "\")]">>)>>
                     [] ty.kind.tag.k = "Untagged" ->
                          <<Line("enum_tag", 0, <<"#[serde(untagged)]">>)>>)
               \o <<Line("enum_open", 0, <<"pub enum ", ty.name, " {">>)>>
               \o Flatten([j \in 1..Len(ty.kind.variants) |->
                             gen_enum_variant(c, f, ty.kind.variants[j], j)])
               \o <<Line("close", 0, <<"}">>)>>)
    \o <<Line("blank", 0, <<>>)>>

(***************************************************************************)
(* gen_method.                                                             *)
(***************************************************************************)
\* std_mod of gen_method
StdMod(c) == IF c.generation.use_core THEN "core" ELSE "std"

\* `ident_base.to_case(Case::Pascal)` followed by push_str(suffix)
Ident(c, m, suffix) == PascalCase(IdentBase(c, m)) \o <<suffix>>

\* gen_method, `if ctx.config.generation.method_name_constants`
gen_method_constant(c, m) ==
    When(c.generation.method_name_constants,
         <<Line("const_doc", 0, <<"/// '">> \o m.name \o <<"'">>),
           Line("const", 0,
                <<"pub const ">> \o ScreamingSnakeCase(IdentBase(c, m))
                \o <<": &str = \"">> \o m.name \o <<"\";">>),
           Line("blank", 0, <<>>)>>)

\* gen_method, `if ctx.config.generation.result_types`
gen_result_type(c, f, m) ==
    When(c.generation.result_types,
         IF m.result # None
         THEN When(m.result[1].documentation # None,
                   <<Line("result_doc", 0, <<"/// ">> \o m.result[1].documentation),
                     Line("result_doc", 0, <<"///">>)>>)
              \o <<Line("result_note", 0,
                        <<"/// Result type of '">> \o m.name \o <<"'.">>),
                   Line("result_alias", 0,
                        <<"pub type ">> \o Ident(c, m, "Result") \o <<" = ">>
                        \o type_ref_name(f, c, m.result[1].ty, TRUE) \o <<";">>),
                   Line("blank", 0, <<>>)>>
         ELSE <<Line("result_note", 0,
                     <<"/// Result type of '">> \o m.name
                     \o <<"'. This method does not return anything.">>),
                Line("result_alias", 0,
                     <<"pub type ">> \o PascalCase(IdentBase(c, m)) \o <<" = ">>
                     \o <<"()">> \o <<";">>),
                Line("blank", 0, <<>>)>>)

\* gen_method, the parameter record
gen_params_struct(c, f, m) ==
    <<Line("params_doc", 0, <<"/// Parameters of the '">> \o m.name \o <<"' method.">>),
      Line("params_derive", 0, <<"#[derive(Debug, Clone)]">>),
      Line("params_open", 0, <<"pub struct ">> \o Ident(c, m, "Params") \o <<" {">>)>>
    \o Flatten([j \in 1..Len(m.params) |->
                  When(m.params[j].documentation # None,
                       <<Line("param_doc", j,
                              <<"    /// ">> \o m.params[j].documentation)>>)
                  \o <<Line("param_field", j,
                            <<"    pub ", m.params[j].name, ": ">>
                            \o type_ref_name(f, c, m.params[j].ty, m.params[j].required)
                            \o <<",">>)>>])
    \o <<Line("close", 0, <<"}">>), Line("blank", 0, <<>>)>>

\* gen_method, the body of the generated `serialize`
gen_serialize_body(m) ==
    IF m.param_structure \in {"ByName", "Either"}
    THEN <<Line("ser_map_open", 0,
                <<"        let mut map = serializer.serialize_map(None)?;">>)>>
         \o [j \in 1..Len(m.params) |->
               Line("ser_entry", j,
                    <<"        map.serialize_entry(\"", m.params[j].name_in_json,
                      "\", &self.", m.params[j].name, ")?;">>)]
         \o <<Line("ser_map_end", 0, <<"        map.end()">>)>>
    ELSE <<Line("ser_seq_open", 0,
                <<"        let mut seq = serializer.serialize_seq(None)?;">>)>>
         \o [j \in 1..Len(m.params) |->
               Line("ser_element", j,
                    <<"        seq.serialize_element(&self.", m.params[j].name, ")?;">>)]
         \o <<Line("ser_seq_end", 0, <<"        seq.end()">>)>>

\* gen_method, `impl Serialize for {ident}`
gen_serialize(c, m) ==
    <<Line("static", 0, <<"impl Serialize for ">> \o Ident(c, m, "Params") \o <<" {">>),
      Line("static", 0, <<"        #[allow(unused_mut)]">>),
      Line("static", 0,
           <<"    fn serialize<S>(&self, serializer: S) -> Result<S::Ok, S::Error>">>),
      Line("static", 0, <<"    where">>),
      Line("static", 0, <<"        S: serde::Serializer,">>),
      Line("static", 0, <<"    {">>)>>
    \o gen_serialize_body(m)
    \o <<Line("static", 0, <<"    }">>),
         Line("static", 0, <<"}">>),
         Line("blank", 0, <<>>)>>

\* A positional decoder that reports a missing element at its 0-based index.
gen_visit_seq_zero_based(c, f, m) ==
    <<Line("visit_seq_open", 0, <<"            #[allow(unused_mut)]">>),
      Line("static", 0,
           <<"            fn visit_seq<A>(self, mut seq: A) -> Result<Self::Value, A::Error>">>),
      Line("static", 0, <<"            where">>),
      Line("static", 0, <<"                A: serde::de::SeqAccess<'de>,">>),
      Line("static", 0, <<"            {">>)>>
    \o [j \in 1..Len(m.params) |->
          Line("seq_next", j,
               <<"                let ", m.params[j].name, ": ">>
               \o type_ref_name(f, c, m.params[j].ty, m.params[j].required)
               \o <<" = seq.next_element()?.ok_or_else(|| serde::de::Error::invalid_length(",
                    ToString(j - 1), ", &\"expected ", ToString(Len(m.params)),
                    " parameters\"))?;">>)]
    \o <<Line("blank", 0, <<>>),
         Line("seq_trailing", 0,
              <<"                if seq.next_element::<serde::de::IgnoredAny>()?.is_some() {">>),
         Line("seq_trailing_err", 0,
              <<"                    return Err(serde::de::Error::invalid_length(",
                ToString(Len(m.params) + 1), ", &\"expected ", ToString(Len(m.params)),
                " parameters\"));">>),
         Line("static", 0, <<"                }">>),
         Line("blank", 0, <<>>),
         Line("seq_build_open", 0,
              <<"                Ok(">> \o Ident(c, m, "Params") \o <<" {">>)>>
    \o [j \in 1..Len(m.params) |->
          Line("seq_build", j, <<"                    ", m.params[j].name, ",">>)]
    \o <<Line("static", 0, <<"                })">>),
         Line("static", 0, <<"            }">>),
         Line("blank", 0, <<>>)>>

\* gen_method, the generated `visit_seq`
gen_visit_seq(c, f, m) ==
    <<Line("visit_seq_open", 0, <<"            #[allow(unused_mut)]">>),
      Line("static", 0,
           <<"            fn visit_seq<A>(self, mut seq: A) -> Result<Self::Value, A::Error>">>),
      Line("static", 0, <<"            where">>),
      Line("static", 0, <<"                A: serde::de::SeqAccess<'de>,">>),
      Line("static", 0, <<"            {">>)>>
    \o [j \in 1..Len(m.params) |->
          Line("seq_next", j,
               <<"                let ", m.params[j].name, ": ">>
               \o type_ref_name(f, c, m.params[j].ty, m.params[j].required)
               \o <<" = seq.next_element()?.ok_or_else(|| serde::de::Error::invalid_length(",
                    ToString((j - 1) + 1), ", &\"expected ", ToString(Len(m.params)),
                    " parameters\"))?;">>)]
    \o <<Line("blank", 0, <<>>),
         Line("seq_trailing", 0,
              <<"                if seq.next_element::<serde::de::IgnoredAny>()?.is_some() {">>),
         Line("seq_trailing_err", 0,
              <<"                    return Err(serde::de::Error::invalid_length(",
                ToString(Len(m.params) + 1), ", &\"expected ", ToString(Len(m.params)),
                " parameters\"));">>),
         Line("static", 0, <<"                }">>),
         Line("blank", 0, <<>>),
         Line("seq_build_open", 0,
              <<"                Ok(">> \o Ident(c, m, "Params") \o <<" {">>)>>
    \o [j \in 1..Len(m.params) |->
          Line("seq_build", j, <<"                    ", m.params[j].name, ",">>)]
    \o <<Line("static", 0, <<"                })">>),
         Line("static", 0, <<"            }">>),
         Line("blank", 0, <<>>)>>

\* gen_method, the generated `visit_map`
gen_visit_map(c, f, m) ==
    <<Line("visit_map_open", 0, <<"            #[allow(unused_variables)]">>),
      Line("static", 0,
           <<"            fn visit_map<A>(self, map: A) -> Result<Self::Value, A::Error>">>),
      Line("static", 0, <<"            where">>),
      Line("static", 0, <<"                A: serde::de::MapAccess<'de>,">>),
      Line("static", 0, <<"            {">>),
      Line("static", 0, <<"                #[derive(Deserialize)]">>),
      Line("helper_open", 0, <<"                struct Helper {">>)>>
    \o Flatten([j \in 1..Len(m.params) |->
                  When(~m.params[j].required,
                       <<Line("helper_default", j,
                              <<"                        #[serde(default)]">>)>>)
                  \o <<Line("helper_field", j,
                            <<"                    ", m.params[j].name, ": ">>
                            \o type_ref_name(f, c, m.params[j].ty, m.params[j].required)
                            \o <<",">>)>>])
    \o <<Line("static", 0, <<"                }">>),
         Line("blank", 0, <<>>),
         Line("helper_deserialize", 0,
              <<"                let helper = Helper::deserialize(serde::de::value::MapAccessDeserializer::new(map))?;">>),
         Line("blank", 0, <<>>),
         Line("map_build_open", 0,
              <<"                Ok(">> \o Ident(c, m, "Params") \o <<" {">>)>>
    \o [j \in 1..Len(m.params) |->
          Line("map_build", j,
               <<"                    ", m.params[j].name, ": helper.",
                 m.params[j].name, ",">>)]
    \o <<Line("static", 0, <<"                })">>),
         Line("static", 0, <<"            }">>),
         Line("blank", 0, <<>>)>>

\* A Visitor that, for Either, implements the named shape alone.
gen_visitors_named_either(c, f, m) ==
    When(m.param_structure \in {"ByPosition"}, gen_visit_seq(c, f, m))
    \o When(m.param_structure \in {"ByName", "Either"}, gen_visit_map(c, f, m))

\* gen_method, which visitors the generated Visitor implements
gen_visitors(c, f, m) ==
    When(m.param_structure \in {"ByPosition", "Either"}, gen_visit_seq(c, f, m))
    \o When(m.param_structure \in {"ByName", "Either"}, gen_visit_map(c, f, m))

\* gen_method, the final `match method.param_structure`
gen_dispatch(m) ==
    CASE m.param_structure = "ByName" ->
           <<Line("dispatch", 0, <<"        deserializer.", "deserialize_map", "(Visitor)">>)>>
      [] m.param_structure = "ByPosition" ->
           <<Line("dispatch", 0, <<"        deserializer.", "deserialize_seq", "(Visitor)">>)>>
      [] m.param_structure = "Either" ->
           <<Line("dispatch", 0, <<"        deserializer.", "deserialize_any", "(Visitor)">>)>>

\* gen_method, `impl<'de> Deserialize<'de> for {ident}`
gen_deserialize(c, f, m) ==
    <<Line("static", 0,
           <<"impl<'de> Deserialize<'de> for ">> \o Ident(c, m, "Params") \o <<" {">>),
      Line("static", 0,
           <<"    fn deserialize<D>(deserializer: D) -> Result<Self, D::Error>">>),
      Line("static", 0, <<"    where">>),
      Line("static", 0, <<"        D: serde::Deserializer<'de>,">>),
      Line("static", 0, <<"    {">>),
      Line("static", 0, <<"        struct Visitor;">>),
      Line("blank", 0, <<>>),
      Line("static", 0, <<"        impl<'de> serde::de::Visitor<'de> for Visitor {">>),
      Line("static", 0,
           <<"            type Value = ">> \o Ident(c, m, "Params") \o <<";">>),
      Line("blank", 0, <<>>),
      Line("static", 0,
           <<"            fn expecting(&self, f: &mut ", StdMod(c),
             "::fmt::Formatter) -> ", StdMod(c), "::fmt::Result {">>),
      Line("static", 0,
           <<"                write!(f, \"the parameters for '">> \o m.name \o <<"'\")">>),
      Line("static", 0, <<"            }">>),
      Line("blank", 0, <<>>)>>
    \o gen_visitors(c, f, m)
    \o <<Line("static", 0, <<"        }">>),
         Line("blank", 0, <<>>)>>
    \o gen_dispatch(m)
    \o <<Line("static", 0, <<"    }">>),
         Line("static", 0, <<"}">>),
         Line("blank", 0, <<>>)>>

\* gen_method
gen_method(c, f, m) ==
    gen_method_constant(c, m)
    \o gen_result_type(c, f, m)
    \o When(c.generation.param_types,
            gen_params_struct(c, f, m) \o gen_serialize(c, m) \o gen_deserialize(c, f, m))

(***************************************************************************)
(* gen: the whole output, in the order of its writes.  Each line carries   *)
(* the section that wrote it and the index of its type or method.          *)
(***************************************************************************)
Tag(sec, idx, lines) ==
    [n \in 1..Len(lines) |->
       [sec |-> sec, idx |-> idx, item |-> lines[n].item,
        sub |-> lines[n].sub, text |-> lines[n].text]]

\* gen, the header and the imports
gen_prelude(c, f) ==
    Tag("header", 0, <<Line("header", 0,
            <<"//", "// This file was automatically generated by openrpc-gen.", "//",
              "// Do not edit it manually and instead edit either the source OpenRPC document,",
              "// the configuration file, or open an issue or pull request on the openrpc-gen",
              "// GitHub repository.", "// ",
              "//     https://github.com/nils-mathieu/openrpc-gen", "//", "">>)>>)
    \o Tag("import", 0,
           <<Line("import", 0, <<"use serde::{Serialize, Deserialize};">>)>>
           \o When(c.generation.param_types /\ f.methods # <<>>,
                   <<Line("import", 0, <<"use serde::ser::SerializeMap;">>)>>)
           \o [n \in 1..Len(c.generation.additional_imports) |->
                 Line("import", n, <<"use ", c.generation.additional_imports[n], ";">>)]
           \o <<Line("blank", 0, <<>>)>>)

\* gen, `for ty in file.types.values()`
gen_types(c, f) ==
    Flatten([i \in 1..Len(f.types) |-> Tag("type", i, gen_type(c, f, f.types[i]))])

\* gen, `for method in &file.methods`
gen_methods(c, f) ==
    Flatten([i \in 1..Len(f.methods) |-> Tag("method", i, gen_method(c, f, f.methods[i]))])

\* A generator that renders the methods before the types.
gen_lines_methods_first(c, f) == gen_prelude(c, f) \o gen_methods(c, f) \o gen_types(c, f)

\* gen: every write of the pass, in order
gen_lines(c, f) == gen_prelude(c, f) \o gen_types(c, f) \o gen_methods(c, f)

(***************************************************************************)
(* What the generated parameter codec does, read off the generated lines   *)
(* `g` of one method (serde's data model: a wire value is a sequence, a    *)
(* mapping or something else; its elements are taken to be well typed).    *)
(***************************************************************************)
SeqWire(items) == [shape |-> "seq", items |-> items, map |-> <<>>]
MapWire(map) == [shape |-> "map", items |-> <<>>, map |-> map]
OtherWire == [shape |-> "str", items |-> <<>>, map |-> <<>>]

Decoded(value) == [ok |-> TRUE, value |-> value, err |-> <<>>]
DecodeErr(err) == [ok |-> FALSE, value |-> <<>>, err |-> err]

ItemLines(g, item) == SelectSeq(g, LAMBDA l : l.item = item)
HasItem(g, item) == \E n \in 1..Len(g) : g[n].item = item

\* The generated `serialize` (gen.rs:275-294) applied to the record `rec`.
RunSerialize(g, rec) ==
    IF HasItem(g, "ser_map_open")
    THEN LET es == ItemLines(g, "ser_entry")
             keys == {es[n].text[2] : n \in 1..Len(es)}
         IN MapWire([k \in keys |->
                       rec[es[CHOOSE n \in 1..Len(es) :
                                /\ es[n].text[2] = k
                                /\ \A n2 \in 1..Len(es) : es[n2].text[2] = k => n2 >= n
                             ].text[4]]])
    ELSE LET es == ItemLines(g, "ser_element")
         IN SeqWire([n \in 1..Len(es) |-> rec[es[n].text[2]]])

\* The generated `visit_seq` (gen.rs:341-360) applied to the elements.
RunVisitSeq(g, items) ==
    LET ns == ItemLines(g, "seq_next")
        bs == ItemLines(g, "seq_build")
        short == {j \in 1..Len(ns) : j > Len(items)}
        first == CHOOSE j \in short : \A j2 \in short : j2 >= j
        trail == ItemLines(g, "seq_trailing_err")
        bound(name) == CHOOSE j \in 1..Len(ns) :
                          /\ ns[j].text[2] = name
                          /\ \A j2 \in 1..Len(ns) : ns[j2].text[2] = name => j2 <= j
    IN IF short # {}
       THEN DecodeErr(<<"invalid_length",
                        ns[first].text[Len(ns[first].text) - 3],
                        ns[first].text[Len(ns[first].text) - 1]>>)
       ELSE IF Len(items) > Len(ns)
       THEN DecodeErr(<<"invalid_length", trail[1].text[2], trail[1].text[4]>>)
       ELSE Decoded([name \in {bs[n].text[2] : n \in 1..Len(bs)} |->
                       items[bound(name)]])

\* The generated `visit_map` (gen.rs:377-402) applied to the mapping: the
\* derived Helper reads each of its fields under the field's own name,
\* defaults the ones marked #[serde(default)] and ignores other keys.
RunVisitMap(g, map) ==
    LET hs == ItemLines(g, "helper_field")
        bs == ItemLines(g, "map_build")
        defaulted(n) == \E d \in 1..Len(g) :
                           g[d].item = "helper_default" /\ g[d].sub = hs[n].sub
        missing == {n \in 1..Len(hs) :
                       hs[n].text[2] \notin DOMAIN map /\ ~defaulted(n)}
        first == CHOOSE n \in missing : \A n2 \in missing : n2 >= n
        helper == [name \in {hs[n].text[2] : n \in 1..Len(hs)} |->
                     IF name \in DOMAIN map THEN map[name] ELSE "default"]
    IN IF missing # {}
       THEN DecodeErr(<<"missing_field", hs[first].text[2]>>)
       ELSE Decoded([name \in {bs[n].text[2] : n \in 1..Len(bs)} |->
                       helper[bs[CHOOSE n \in 1..Len(bs) : bs[n].text[2] = name].text[4]]])

\* A self-describing format (for instance JSON) driving the Visitor: the
\* hint passed by the generated `deserialize` (gen.rs:410-420) selects the
\* shape it insists on, and a shape the Visitor has no method for is serde's
\* default invalid_type error.
RunDeserialize(g, w) ==
    LET hint == ItemLines(g, "dispatch")[1].text[2]
        wanted == CASE hint = "deserialize_map" -> {"map"}
                    [] hint = "deserialize_seq" -> {"seq"}
                    [] hint = "deserialize_any" -> {"map", "seq", "str"}
    IN IF w.shape \notin wanted THEN DecodeErr(<<"invalid_type", w.shape>>)
       ELSE IF w.shape = "seq" /\ HasItem(g, "visit_seq_open")
       THEN RunVisitSeq(g, w.items)
       ELSE IF w.shape = "map" /\ HasItem(g, "visit_map_open")
       THEN RunVisitMap(g, w.map)
       ELSE DecodeErr(<<"invalid_type", w.shape>>)

(***************************************************************************)
(* The generation pass as a state machine: one step per write.             *)
(***************************************************************************)
Running == <<>>
Ok == <<"Ok">>
Err(e) == <<"Err", e>>

IoErrors == {"BrokenPipe", "StorageFull"}

\* A `?` that swallows the error.
QuestionMarkIgnoring(res) == Running

\* The `?` after every writeln!: an error returns from gen unchanged.
QuestionMark(res) == IF res = Ok THEN Running ELSE res

Lines == gen_lines(config, file)

\* The line the next writeln! of the pass writes, None past the last one.
NextLine ==
    LET ls == Lines
    IN IF attempts < Len(ls) THEN Some(ls[attempts + 1]) ELSE None

\* A writeln! of section `sec` that the sink accepts.
Write(sec) ==
    /\ ret = Running
    /\ LET nl == NextLine
       IN /\ nl # None
          /\ nl[1].sec = sec
          /\ out' = Append(out, nl[1])
    /\ attempts' = attempts + 1
    /\ ret' = QuestionMark(Ok)
    /\ UNCHANGED <<file, config, failedAt, sinkError, wire, decoded, encoded,
                   call, resolved>>

WriteHeader == Write("header")
WriteImport == Write("import")
WriteType == Write("type")
WriteMethod == Write("method")

\* A writeln! that the sink fails with error e.
WriteFails ==
    /\ ret = Running
    /\ NextLine # None
    /\ \E e \in IoErrors :
         /\ attempts' = attempts + 1
         /\ failedAt' = IF failedAt = 0 THEN attempts + 1 ELSE failedAt
         /\ sinkError' = IF failedAt = 0 THEN Some(e) ELSE sinkError
         /\ ret' = QuestionMark(Err(e))
    /\ UNCHANGED <<file, config, out, wire, decoded, encoded, call, resolved>>

\* gen's final `Ok(())`.
Return ==
    /\ ret = Running
    /\ NextLine = None
    /\ ret' = Ok
    /\ UNCHANGED <<file, config, out, attempts, failedAt, sinkError,
                   wire, decoded, encoded, call, resolved>>

(***************************************************************************)
(* Using the generated codec once the file is written.                     *)
(***************************************************************************)
MethodLines(i) == SelectSeq(out, LAMBDA l : l.sec = "method" /\ l.idx = i)

ParamNames(m) == {m.params[j].name : j \in 1..Len(m.params)}
WireNames(m) == {m.params[j].name_in_json : j \in 1..Len(m.params)}

\* Parameter records handed to the encoder.
ArgRecords(m) == {[n \in ParamNames(m) |-> v \o n] : v \in {"x:", "y:"}}

\* Wire values handed to the decoder.
Wires(m) ==
    {SeqWire([j \in 1..n |-> "e" \o ToString(j)]) : n \in 0..(Len(m.params) + MaxExtra)}
    \cup {MapWire([k \in K |-> "w:" \o k]) :
            K \in SUBSET (ParamNames(m) \cup WireNames(m) \cup {"unknown"})}
    \cup {OtherWire}

HasCodec(i) ==
    /\ ret = Ok
    /\ config.generation.param_types
    /\ i \in 1..Len(file.methods)

\* The generated `Serialize::serialize` of method i's parameter record.
Encode ==
    \E i \in 1..Len(file.methods) :
      /\ HasCodec(i)
      /\ \E rec \in ArgRecords(file.methods[i]) :
           encoded' = Some([m |-> i, rec |-> rec,
                            value |-> RunSerialize(MethodLines(i), rec)])
      /\ UNCHANGED <<file, config, out, attempts, failedAt, sinkError, ret,
                     wire, decoded, call, resolved>>

\* The generated `Deserialize::deserialize` of method i's parameter record.
Decode ==
    \E i \in 1..Len(file.methods) :
      /\ HasCodec(i)
      /\ \E w \in Wires(file.methods[i])
                   \cup {encoded[n].value : n \in {n \in 1..Len(encoded) : encoded[n].m = i}} :
           /\ wire' = Some([m |-> i, w |-> w])
           /\ decoded' = Some(RunDeserialize(MethodLines(i), w))
      /\ UNCHANGED <<file, config, out, attempts, failedAt, sinkError, ret,
                     encoded, call, resolved>>

(***************************************************************************)
(* Inputs.                                                                 *)
(***************************************************************************)
StdPrimitives ==
    [array |-> <<"Vec<", "{}", ">">>, boolean |-> <<"bool">>, integer |-> <<"i64">>,
     null |-> <<"()">>, number |-> <<"f64">>, string |-> <<"String">>,
     optional |-> <<"Option<", "{}", ">">>]

AltPrimitives ==
    [array |-> <<"Box<[", "{}", "]>">>, boolean |-> <<"bool">>, integer |-> <<"u64">>,
     null |-> <<"Unit">>, number |-> <<"f32">>, string |-> <<"Box<str>">>,
     optional |-> <<"Maybe<", "{}", ">">>]

BaseGeneration ==
    [additional_imports |-> <<>>, global_derives |-> <<>>, derives |-> <<>>,
     method_name_prefix |-> None, method_name_constants |-> FALSE,
     result_types |-> FALSE, param_types |-> FALSE, use_core |-> FALSE]

BaseConfig ==
    [primitives |-> StdPrimitives, generation |-> BaseGeneration,
     debug_path |-> FALSE, attributes |-> <<>>]

FeltAttributes == [n \in {"Felt"} |-> <<"#[serde(with = \"felt\")]">>]

\* Fields.
FieldPool ==
    << [path |-> "#/S/id", documentation |-> None, ty |-> Integer,
        required |-> TRUE, flatten |-> FALSE, name |-> "id", name_in_json |-> "id"],
       [path |-> "#/S/name", documentation |-> Some("The name."), ty |-> String,
        required |-> FALSE, flatten |-> FALSE, name |-> "name", name_in_json |-> "name"],
       [path |-> "#/S/type", documentation |-> None, ty |-> Ref("#/A"),
        required |-> TRUE, flatten |-> FALSE, name |-> "type_", name_in_json |-> "type"],
       [path |-> "#/S/rest", documentation |-> None, ty |-> ExternalRef("Felt"),
        required |-> FALSE, flatten |-> TRUE, name |-> "rest", name_in_json |-> "rest"],
       [path |-> "#/S/tags", documentation |-> None, ty |-> Array(Boolean),
        required |-> FALSE, flatten |-> FALSE, name |-> "tags", name_in_json |-> "Tags"],
       [path |-> "#/S/base", documentation |-> None, ty |-> Ref("#/missing"),
        required |-> TRUE, flatten |-> TRUE, name |-> "base", name_in_json |-> "base"] >>

\* Field lists: up to MaxFields distinct fields of the pool, in any order.
FieldLists ==
    UNION {{fs \in [1..n -> Range(FieldPool)] :
              \A a, b \in 1..n : a # b => fs[a] # fs[b]} : n \in 0..MaxFields}

Struct(fields) ==
    [path |-> "#/S", name |-> "S", documentation |-> Some("A record."),
     kind |-> [k |-> "Struct", fields |-> fields]]

Alias(target) ==
    [path |-> "#/A", name |-> "A", documentation |-> None,
     kind |-> [k |-> "Alias", ty |-> target]]

Variants ==
    << [path |-> "#/E/0", documentation |-> None, name |-> "Latest",
        name_in_json |-> Some("latest"), ty |-> None],
       [path |-> "#/E/1", documentation |-> Some("By number."), name |-> "Number",
        name_in_json |-> Some("Number"), ty |-> Some(Integer)],
       [path |-> "#/E/2", documentation |-> None, name |-> "Hash",
        name_in_json |-> None, ty |-> Some(Ref("#/S"))] >>

EnumTags == {[k |-> "Normal"], [k |-> "Tagged", tag |-> "type"], [k |-> "Untagged"]}

Enum(tag, copy) ==
    [path |-> "#/E", name |-> "E", documentation |-> None,
     kind |-> [k |-> "Enum", tag |-> tag, variants |-> Variants, copy |-> copy]]

\* Parameters.
ParamA(j) ==
    CASE j = 1 -> [name |-> "block_id", name_in_json |-> "blockId",
                   documentation |-> Some("The block."), ty |-> Ref("#/S"),
                   required |-> TRUE]
      [] j = 2 -> [name |-> "full", name_in_json |-> "full", documentation |-> None,
                   ty |-> Boolean, required |-> FALSE]
      [] OTHER -> [name |-> "p" \o ToString(j), name_in_json |-> "p" \o ToString(j),
                   documentation |-> None, ty |-> String, required |-> TRUE]

ParamB(j) ==
    [name |-> "q" \o ToString(j), name_in_json |-> "q" \o ToString(j),
     documentation |-> None, ty |-> Integer, required |-> TRUE]

ParamLists ==
    {[j \in 1..n |-> ParamA(j)] : n \in 0..MaxParams}
    \cup {[j \in 1..n |-> ParamB(j)] : n \in 1..MaxParams}

ParamStructures == {"ByPosition", "ByName", "Either"}

Results ==
    {None,
     Some([documentation |-> None, ty |-> Ref("#/S")]),
     Some([documentation |-> Some("The block."), ty |-> Array(Ref("#/missing"))])}

Method(name, params, result, structure) ==
    [name |-> name, documentation |-> None, params |-> params, result |-> result,
     param_structure |-> structure]

GetBlock == <<"eth", "_", "get", "_", "block">>
Sync == <<"sync">>

\* Scenarios: the <<file, config>> pairs gen is run on.
WithGeneration(g) ==
    [primitives |-> StdPrimitives, generation |-> g, debug_path |-> FALSE,
     attributes |-> <<>>]

StructScenarios ==
    {<<[types |-> <<Struct(fs)>>, methods |-> <<>>],
       [primitives |-> StdPrimitives, generation |-> BaseGeneration,
        debug_path |-> d, attributes |-> IF d THEN FeltAttributes ELSE <<>>]>> :
       fs \in FieldLists, d \in BOOLEAN}

DerivesTables ==
    {<<>>,
     [p \in {"#/E"} |-> <<"Default", "PartialOrd">>],
     [p \in {"#/S", "#/A"} |-> <<"Default">>],
     [p \in {"#/E", "#/S", "#/A"} |-> <<"Hash", "Default">>]}

DeriveScenarios ==
    {<<[types |-> ts, methods |-> <<>>],
       [primitives |-> AltPrimitives,
        generation |-> [BaseGeneration EXCEPT !.global_derives = gd, !.derives = dt],
        debug_path |-> d, attributes |-> <<>>]>> :
       ts \in {<<Enum(t, c)>> : t \in EnumTags, c \in BOOLEAN}
              \cup {<<Struct(<<FieldPool[1]>>)>>, <<Alias(Integer)>>,
                    <<Alias(Ref("#/E")), Enum([k |-> "Normal"], FALSE)>>},
       gd \in {<<>>, <<"Debug", "Clone">>},
       dt \in DerivesTables,
       d \in {FALSE}}

TypePool == {Alias(Ref("#/missing")), Struct(<<FieldPool[3]>>),
             Enum([k |-> "Untagged"], TRUE)}

TypeLists ==
    UNION {{ts \in [1..n -> TypePool] :
              \A a, b \in 1..n : a # b => ts[a].path # ts[b].path} : n \in 0..2}

MethodPool ==
    {Method(GetBlock, <<ParamA(1)>>, Some([documentation |-> None, ty |-> Ref("#/S")]),
            "Either"),
     Method(Sync, <<>>, None, "ByPosition")}

MethodLists ==
    UNION {{ms \in [1..n -> MethodPool] :
              \A a, b \in 1..n : a # b => ms[a] # ms[b]} : n \in 0..2}

Toggles ==
    {[BaseGeneration EXCEPT !.additional_imports = <<"alloc::vec::Vec", "crate::Felt">>],
     [BaseGeneration EXCEPT !.method_name_constants = TRUE, !.result_types = TRUE,
                            !.additional_imports = <<"crate::Felt">>],
     [BaseGeneration EXCEPT !.method_name_constants = TRUE]}

OrderScenarios ==
    {<<[types |-> ts, methods |-> ms], WithGeneration(g)>> :
       ts \in TypeLists, ms \in MethodLists, g \in Toggles}

CodecScenarios ==
    {<<[types |-> <<Struct(<<FieldPool[1]>>)>>,
        methods |-> <<Method(GetBlock, ps, r, st)>>],
       WithGeneration(g)>> :
       ps \in ParamLists, st \in ParamStructures, r \in {None},
       g \in {[BaseGeneration EXCEPT !.param_types = TRUE],
              [BaseGeneration EXCEPT !.param_types = TRUE, !.use_core = TRUE,
                                     !.method_name_constants = TRUE,
                                     !.method_name_prefix = Some(<<"eth", "_">>)]}}

ResultScenarios ==
    {<<[types |-> <<Struct(<<FieldPool[1]>>)>>,
        methods |-> <<Method(n, <<>>, r, "ByName")>>],
       WithGeneration([BaseGeneration EXCEPT !.method_name_prefix = px,
                                             !.method_name_constants = mc,
                                             !.result_types = rt])>> :
       n \in {GetBlock, Sync}, r \in Results,
       px \in {None, Some(<<"eth", "_">>), Some(<<"sync">>)},
       mc \in BOOLEAN, rt \in BOOLEAN}

Scenarios ==
    StructScenarios \cup DeriveScenarios \cup OrderScenarios \cup CodecScenarios
    \cup ResultScenarios

(***************************************************************************)
(* Specification of the generation pass and of the code it generates.      *)
(***************************************************************************)
Init ==
    /\ \E sc \in Scenarios : file = sc[1] /\ config = sc[2]
    /\ out = <<>>
    /\ attempts = 0
    /\ failedAt = 0
    /\ sinkError = None
    /\ ret = Running
    /\ wire = None
    /\ decoded = None
    /\ encoded = None
    /\ call = None
    /\ resolved = None

Next ==
    \/ WriteHeader
    \/ WriteImport
    \/ WriteType
    \/ WriteMethod
    \/ WriteFails
    \/ Return
    \/ Encode
    \/ Decode

Spec == Init /\ [][Next]_vars

(***************************************************************************)
(* Specification of the reference resolver alone.                          *)
(***************************************************************************)
RECURSIVE TypeRefs(_)
TypeRefs(depth) ==
    IF depth = 0
    THEN {Boolean, Integer, Null, Number, String, Keyword("latest"),
          Ref("#/S"), Ref("#/A"), Ref("#/missing"), ExternalRef("Felt")}
    ELSE TypeRefs(depth - 1) \cup {Array(r) : r \in TypeRefs(depth - 1)}

ResolveFiles ==
    {[types |-> <<Struct(<<FieldPool[1]>>)>>, methods |-> <<>>],
     [types |-> <<Alias(Integer), Struct(<<>>)>>, methods |-> <<>>]}

InitResolve ==
    /\ file \in ResolveFiles
    /\ \E p \in {StdPrimitives, AltPrimitives} :
         config = [BaseConfig EXCEPT !.primitives = p]
    /\ \E r \in TypeRefs(MaxDepth), required \in BOOLEAN :
         call = Some([r |-> r, required |-> required])
    /\ resolved = None
    /\ out = <<>>
    /\ attempts = 0
    /\ failedAt = 0
    /\ sinkError = None
    /\ ret = Running
    /\ wire = None
    /\ decoded = None
    /\ encoded = None

\* A call of Ctx::type_ref_name.
Resolve ==
    /\ call # None
    /\ resolved = None
    /\ resolved' = Some(type_ref_name(file, config, call[1].r, call[1].required))
    /\ UNCHANGED <<file, config, out, attempts, failedAt, sinkError, ret,
                   wire, decoded, encoded, call>>

NextResolve == Resolve

SpecResolve == InitResolve /\ [][NextResolve]_vars

(***************************************************************************)
(* Properties.                                                             *)
(***************************************************************************)
OutLines(sec, idx, item) ==
    SelectSeq(out, LAMBDA l : l.sec = sec /\ l.idx = idx /\ l.item = item)

Texts(ls) == [n \in 1..Len(ls) |-> ls[n].text]

\* The type spelled on an alias, field or variant line.
Spelling(l) == SubSeq(l.text, 4, Len(l.text) - 1)

\* The reference resolved for a line of a type declaration, None if the line
\* resolves none.
SiteRef(l) ==
    IF l.sec # "type" THEN None
    ELSE LET kind == file.types[l.idx].kind
         IN CASE l.item = "alias" -> Some(kind.ty)
              [] l.item = "field" /\ kind.fields[l.sub].required ->
                   Some(kind.fields[l.sub].ty)
              [] l.item = "variant" /\ kind.variants[l.sub].ty # None ->
                   kind.variants[l.sub].ty
              [] OTHER -> None

IsBrokenRefLine(l) ==
    /\ SiteRef(l) # None
    /\ SiteRef(l)[1].k = "Ref"
    /\ \A i \in 1..Len(file.types) : file.types[i].path # SiteRef(l)[1].path

\* C1: a Ref(path) resolved in a required position (alias target, required
\* field, variant payload) is spelled as the generated name of the TypeDef
\* stored under path when there is one, and otherwise as a placeholder that
\* contains the path; gen returns an error only when the sink failed.
C1_RefResolution ==
    /\ \A n \in 1..Len(out) :
         (SiteRef(out[n]) # None /\ SiteRef(out[n])[1].k = "Ref") =>
            LET path == SiteRef(out[n])[1].path
                hits == {i \in 1..Len(file.types) : file.types[i].path = path}
            IN IF hits # {}
               THEN \E i \in hits : Spelling(out[n]) = <<file.types[i].name>>
               ELSE Contains(Spelling(out[n]), <<path>>)
    /\ (ret # Running /\ ret # Ok) => failedAt # 0

\* C1 witness: the pass completed and wrote further lines after a line with
\* a broken reference.
C1_Witness ==
    /\ ret = Ok
    /\ \E n \in 1..(Len(out) - 1) :
         IsBrokenRefLine(out[n]) /\ Contains(out[n].text, <<"BrokenReference">>)
    /\ \E n \in 1..Len(out) :
         /\ SiteRef(out[n]) # None
         /\ SiteRef(out[n])[1].k = "Ref"
         /\ ~IsBrokenRefLine(out[n])

\* C2: resolving r in a non-required position yields the optional template
\* with its slot replaced by the required spelling of r; a non-required
\* Array(Boolean) is optional[array[boolean]], never array[optional[boolean]].
C2_OptionalOutermost ==
    (resolved # None /\ ~call[1].required) =>
       /\ resolved[1] = Replace(config.primitives.optional,
                                type_ref_name(file, config, call[1].r, TRUE))
       /\ call[1].r = Array(Boolean) =>
            /\ resolved[1] = Replace(config.primitives.optional,
                                     Replace(config.primitives.array,
                                             config.primitives.boolean))
            /\ resolved[1] # Replace(config.primitives.array,
                                     Replace(config.primitives.optional,
                                             config.primitives.boolean))
            /\ config.primitives = StdPrimitives =>
                 resolved[1] = <<"Option<", "Vec<", "bool", ">", ">">>

\* C2 witness: a non-required Array(Boolean) has been resolved.
C2_Witness ==
    /\ resolved = Some(<<"Option<", "Vec<", "bool", ">", ">">>)
    /\ call = Some([r |-> Array(Boolean), required |-> FALSE])

HasLine(sec, idx, items) ==
    \E n \in 1..Len(out) : out[n].sec = sec /\ out[n].idx = idx /\ out[n].item \in items

FailureStops ==
    /\ failedAt # 0 => (attempts = failedAt /\ ret = Err(sinkError[1]))
    /\ (ret # Running /\ ret # Ok) => (failedAt # 0 /\ ret = Err(sinkError[1]))

EveryTypeDeclared ==
    \A i \in 1..Len(file.types) : HasLine("type", i, {"alias", "struct_open", "enum_open"})

\* C3 as stated: a failed write is the last write and gen returns its error,
\* an error is returned only then, and on Ok a declaration has been emitted
\* for every type and every method.
C3_Original ==
    /\ FailureStops
    /\ ret = Ok =>
         /\ EveryTypeDeclared
         /\ \A i \in 1..Len(file.methods) :
              \E n \in 1..Len(out) : out[n].sec = "method" /\ out[n].idx = i

\* C3 amended: as C3, where on Ok every method has each declaration that the
\* configuration enables (name constant, result alias, parameter record and
\* codec), which is none when the three options are off.
C3_FailFast ==
    /\ FailureStops
    /\ ret = Ok =>
         /\ EveryTypeDeclared
         /\ \A i \in 1..Len(file.methods) :
              /\ config.generation.method_name_constants => HasLine("method", i, {"const"})
              /\ config.generation.result_types => HasLine("method", i, {"result_alias"})
              /\ config.generation.param_types =>
                   /\ HasLine("method", i, {"params_open"})
                   /\ HasLine("method", i, {"dispatch"})
              /\ (\E n \in 1..Len(out) : out[n].sec = "method" /\ out[n].idx = i)
                 <=> (\/ config.generation.method_name_constants
                      \/ config.generation.result_types
                      \/ config.generation.param_types)

\* C3 witness: the sink failed a write after some lines of a file with
\* methods had been accepted, and gen returned that error.
C3_Witness ==
    /\ failedAt > 3
    /\ ret = Err("StorageFull")
    /\ Len(out) = failedAt - 1
    /\ file.methods # <<>>

SecRank(sec) ==
    CASE sec = "header" -> 0 [] sec = "import" -> 1 [] sec = "type" -> 2
      [] sec = "method" -> 3

\* The names declared by the type declarations written so far, in order.
DeclaredNames ==
    LET ds == SelectSeq(out, LAMBDA l : l.sec = "type"
                                /\ l.item \in {"alias", "struct_open", "enum_open"})
    IN [n \in 1..Len(ds) |-> ds[n].text[2]]

\* C4: the output is the header, then the import lines, then the type
\* blocks in the order of File.types, then the method groups in the order of
\* File.methods.
C4_OutputOrder ==
    /\ out # <<>> => (out[1].sec = "header"
                      /\ \A n \in 2..Len(out) : out[n].sec # "header")
    /\ \A a, b \in 1..Len(out) :
         a < b => /\ SecRank(out[a].sec) <= SecRank(out[b].sec)
                  /\ out[a].sec = out[b].sec => out[a].idx <= out[b].idx
    /\ Len(DeclaredNames) <= Len(file.types)
    /\ \A n \in 1..Len(DeclaredNames) : DeclaredNames[n] = file.types[n].name
    /\ ret = Ok =>
         /\ Len(DeclaredNames) = Len(file.types)
         /\ \A n \in 1..Len(config.generation.additional_imports) :
              \E a \in 1..Len(out) :
                 /\ out[a].sec = "import"
                 /\ out[a].text = <<"use ", config.generation.additional_imports[n], ";">>

\* C4 witness: a complete output with imports, two types and two method
\* groups.
C4_Witness ==
    /\ ret = Ok
    /\ Len(file.types) = 2
    /\ Len(config.generation.additional_imports) >= 1
    /\ HasLine("method", 1, {"const"})
    /\ HasLine("method", 2, {"const"})

\* The decode the last Decode step ran: its method, wire value and result.
LastMethod == file.methods[wire[1].m]
LastWire == wire[1].w
LastResult == decoded[1]

\* C5: a decoder that accepts the positional shape, given k elements for N
\* parameters, fails with a length error at k+1 when k < N and at N+1 when
\* k > N, both naming N as the expected count, and for k = N succeeds with
\* element i assigned to the i-th parameter.
C5_PositionalLength ==
    (decoded # None /\ LastWire.shape = "seq"
       /\ LastMethod.param_structure \in {"ByPosition", "Either"}) =>
       LET N == Len(LastMethod.params)
           k == Len(LastWire.items)
       IN /\ k < N => LastResult =
                        DecodeErr(<<"invalid_length", ToString(k + 1), ToString(N)>>)
          /\ k > N => LastResult =
                        DecodeErr(<<"invalid_length", ToString(N + 1), ToString(N)>>)
          /\ k = N => /\ LastResult.ok
                      /\ DOMAIN LastResult.value = ParamNames(LastMethod)
                      /\ \A i \in 1..N :
                           LastResult.value[LastMethod.params[i].name] = LastWire.items[i]

\* C5 witness: two parameters, one element: a length error at position 2.
C5_Witness ==
    /\ decoded = Some(DecodeErr(<<"invalid_length", "2", "2">>))
    /\ Len(LastWire.items) = 1
    /\ LastMethod.param_structure = "ByPosition"

\* C6: for a ByName method the keys the generated decoder reads are the
\* keys the generated encoder writes (the wire names), so decoding what the
\* encoder produced gives the parameters back; a required parameter absent
\* from the mapping is a missing-field error and unknown keys are ignored.
C6_NamedKeysAgree ==
    (ret = Ok /\ config.generation.param_types) =>
       \A i \in 1..Len(file.methods) :
          file.methods[i].param_structure = "ByName" =>
             /\ {l.text[2] : l \in Range(OutLines("method", i, "helper_field"))}
                = WireNames(file.methods[i])
             /\ {l.text[2] : l \in Range(OutLines("method", i, "ser_entry"))}
                = WireNames(file.methods[i])
             /\ (decoded # None /\ wire[1].m = i /\ encoded # None
                   /\ encoded[1].m = i /\ LastWire = encoded[1].value)
                  => LastResult = Decoded(encoded[1].rec)
             /\ (decoded # None /\ wire[1].m = i /\ LastWire.shape = "map") =>
                  LET absent == {j \in 1..Len(LastMethod.params) :
                                   /\ LastMethod.params[j].required
                                   /\ LastMethod.params[j].name_in_json
                                        \notin DOMAIN LastWire.map}
                  IN IF absent # {}
                     THEN ~LastResult.ok /\ LastResult.err[1] = "missing_field"
                     ELSE LastResult.ok

Accepts(result) == result.ok \/ result.err[1] # "invalid_type"

\* C7: ByPosition encodes a sequence and decodes the positional shape only;
\* ByName encodes a mapping and decodes the named shape only; Either decodes
\* both shapes and encodes a mapping.
C7_WireShapes ==
    /\ encoded # None =>
         encoded[1].value.shape =
            (IF file.methods[encoded[1].m].param_structure = "ByPosition"
             THEN "seq" ELSE "map")
    /\ decoded # None =>
         (Accepts(LastResult) <=>
            LastWire.shape \in
               (CASE LastMethod.param_structure = "ByPosition" -> {"seq"}
                  [] LastMethod.param_structure = "ByName" -> {"map"}
                  [] LastMethod.param_structure = "Either" -> {"seq", "map"}))

\* C7 witness: an Either method whose decoder took a sequence and whose
\* encoder produced a mapping.
C7_Witness ==
    /\ decoded # None
    /\ encoded # None
    /\ LastMethod.param_structure = "Either"
    /\ encoded[1].m = wire[1].m
    /\ LastWire.shape = "seq"
    /\ LastResult.ok
    /\ encoded[1].value.shape = "map"
    /\ LastMethod.params # <<>>

BlockDone(i) == HasLine("type", i, {"blank"})

DirectiveText(d) == <<"#[derive(", d, ")]">>

\* The configured directives written on declaration i: the global ones in
\* configured order, then the ones configured for its path in configured
\* order.
DirectivesEmitted(i) ==
    LET path == file.types[i].path
        globals == config.generation.global_derives
        own == IF path \in DOMAIN config.generation.derives
               THEN config.generation.derives[path] ELSE <<>>
        ds == SelectSeq(out, LAMBDA l : l.sec = "type" /\ l.idx = i
                                  /\ l.item \in {"derive_global", "derive_path"})
    IN Texts(ds) = [n \in 1..(Len(globals) + Len(own)) |->
                      IF n <= Len(globals) THEN DirectiveText(globals[n])
                      ELSE DirectiveText(own[n - Len(globals)])]

\* C8 as stated: every declaration (alias, struct or enum) whose path has an
\* entry in generation.derives carries the global directives and then its
\* path-specific directives, each in configured order.
C8_Original ==
    \A i \in 1..Len(file.types) :
       (BlockDone(i) /\ file.types[i].path \in DOMAIN config.generation.derives)
          => DirectivesEmitted(i)

\* C8 amended: every enum declaration carries the global directives and
\* then the directives configured for its path, each in configured order.
C8_EnumDerives ==
    \A i \in 1..Len(file.types) :
       (BlockDone(i) /\ file.types[i].kind.k = "Enum") => DirectivesEmitted(i)

\* C8 witness: an enum written with two global and two path directives.
C8_Witness ==
    \E i \in 1..Len(file.types) :
       /\ BlockDone(i)
       /\ file.types[i].kind.k = "Enum"
       /\ Len(config.generation.global_derives) = 2
       /\ file.types[i].path \in DOMAIN config.generation.derives
       /\ Len(config.generation.derives[file.types[i].path]) = 2
       /\ Len(OutLines("type", i, "derive_path")) = 2

\* Position in out of the line (sec "type", idx i, item, sub j), 0 if absent.
Pos(i, item, j) ==
    LET hits == {n \in 1..Len(out) : /\ out[n].sec = "type" /\ out[n].idx = i
                                     /\ out[n].item = item /\ out[n].sub = j}
    IN IF hits = {} THEN 0 ELSE CHOOSE n \in hits : \A n2 \in hits : n2 >= n

\* C9: a struct is written with one field per Field in declared order; a
\* required field has the plain spelling and no default marker, a field that
\* is not required has the optional spelling and a default marker before it;
\* the flatten marker is written iff flatten, the wire-name override iff
\* name differs from name_in_json.
C9_StructFields ==
    \A i \in 1..Len(file.types) :
       (BlockDone(i) /\ file.types[i].kind.k = "Struct") =>
          LET fields == file.types[i].kind.fields
              fl == OutLines("type", i, "field")
          IN /\ Len(fl) = Len(fields)
             /\ \A j \in 1..Len(fields) :
                  LET plain == type_ref_name(file, config, fields[j].ty, TRUE)
                  IN /\ fl[j].sub = j
                     /\ fl[j].text =
                          <<"    pub ", fields[j].name, ": ">>
                          \o (IF fields[j].required THEN plain
                              ELSE Replace(config.primitives.optional, plain))
                          \o <<",">>
                     /\ (Pos(i, "field_default", j) # 0) <=> ~fields[j].required
                     /\ Pos(i, "field_default", j) < Pos(i, "field", j)
                     /\ (Pos(i, "field_flatten", j) # 0) <=> fields[j].flatten
                     /\ (Pos(i, "field_rename", j) # 0)
                        <=> (fields[j].name # fields[j].name_in_json)
                     /\ Pos(i, "field_rename", j) # 0 =>
                          out[Pos(i, "field_rename", j)].text
                          = <<"    #[serde(rename = \"", fields[j].name_in_json, "\")]">>

\* C9 witness: the record with a required id: Integer and an optional
\* name: String has been written.
C9_Witness ==
    /\ ret = Ok
    /\ \E a, b, d \in 1..Len(out) :
         /\ a < d /\ d < b
         /\ out[a].text = <<"    pub ", "id", ": ", "i64", ",">>
         /\ out[d].text = <<"    #[serde(default)]">>
         /\ out[b].text = <<"    pub ", "name", ": ", "Option<", "String", ">", ",">>

\* C10: with result_types on, every method has exactly one result alias,
\* named PascalCase(identifier base) followed by Result whether or not the
\* method declares a result, whose target is the required spelling of the
\* result type, or the unit type when no result is declared; with
\* result_types off there is no result alias.
C10_ResultAlias ==
    ret = Ok =>
       \A i \in 1..Len(file.methods) :
          LET m == file.methods[i]
              al == OutLines("method", i, "result_alias")
          IN IF config.generation.result_types
             THEN /\ Len(al) = 1
                  /\ al[1].text =
                       <<"pub type ">> \o PascalCase(IdentBase(config, m))
                       \o <<"Result", " = ">>
                       \o (IF m.result # None
                           THEN type_ref_name(file, config, m.result[1].ty, TRUE)
                           ELSE <<"()">>)
                       \o <<";">>
             ELSE al = <<>>

====
